---- MODULE Spec2Model ----
(***************************************************************************)
(* A model of parso/pgen2/pgen.py: the powerset construction (_make_dfas), *)
(* the pairwise state unification (_simplify_dfas) and the transition      *)
(* compilation pass of generate_grammar (_make_transition).                *)
(*                                                                         *)
(* Python lists are 0-based, TLA+ sequences 1-based: index i of the code   *)
(* is index i+1 here.  A DFAState object is identified by the position at  *)
(* which _make_dfas created it (its index in objs); the list `dfas` holds  *)
(* such identities, so `is` of the code is `=` on identities here.         *)
(***************************************************************************)
EXTENDS Integers, Sequences, FiniteSets, TLC

VARIABLES
    rules,     \* the (start, finish) fragments GrammarParser.parse() yields, in order
    r,         \* index of the fragment generate_grammar is working on
    pc,        \* position in the code
    objs,      \* the DFAState objects created for the current rule, by identity
    dfas,      \* the list `states` of _make_dfas / `dfas` of _simplify_dfas (identities)
    k,         \* index of `state` in the loop `for state in states` of _make_dfas
    changes,   \* local `changes` of _simplify_dfas
    i,         \* outer loop index of _simplify_dfas
    j,         \* inner loop index of _simplify_dfas
    run,       \* how many times _simplify_dfas was called on the current list
    merged,    \* history: identity -> identity of the list member it was unified into
    rule_to_dfas,       \* rule name -> the DFAState objects of the rule and their list
    start_nonterminal,  \* name of the first rule, None before
    reserved_strings,   \* literal value -> identity of its ReservedString
    rs_heap,            \* the ReservedString objects created, by identity: their values
    cr,        \* position in `for nonterminal, dfas in rule_to_dfas.items()`
    cs,        \* position in `for dfa_state in dfas`
    pending,   \* the labels of dfa_state.arcs the innermost loop has still to visit
    error      \* the exception that ended generate_grammar, and the label that raised it

ruleVars == <<objs, dfas, k, changes, i, j, run, merged>>

gramVars == <<rule_to_dfas, start_nonterminal, reserved_strings, rs_heap, cr, cs, pending, error>>

vars == <<rules, r, pc, objs, dfas, k, changes, i, j, run, merged,
          rule_to_dfas, start_nonterminal, reserved_strings, rs_heap, cr, cs, pending, error>>

----------------------------------------------------------------------------
(* Bounds of the model *)

MaxNodes == 3
MaxArcs == 3
MaxWord == 3

----------------------------------------------------------------------------
(* Labels.  A label is the string of the grammar file, kept as a sequence  *)
(* of characters so that _make_transition can look at its first character  *)
(* and literal_eval can strip its quotes.                                  *)

None == <<>>

SQ == "'"
DQ == "\""

LitA == <<SQ, "a", SQ>>              \* 'a'
LitB == <<SQ, "b", SQ>>              \* 'b'
LitADouble == <<DQ, "a", DQ>>        \* "a"
LitATriple == <<SQ, SQ, SQ, "a", SQ, SQ, SQ>>   \* '''a'''
LitOpen == <<SQ, "a">>               \* 'a with no closing quote
TokN == <<"N">>                      \* a name of the token namespace
TokX == <<"X">>                      \* a name the token namespace does not have

\* the labels of the fragments of Spec and LiveSpec
RuleLabels == {LitA, LitB}

\* what str.isalpha answers for the characters the labels are made of
IsAlpha(c) == c \notin {SQ, DQ, "_"} /\ c \notin {"0", "1", "2", "3", "4", "5", "6", "7", "8", "9"}

----------------------------------------------------------------------------
(* The NFA fragment of one rule: NFAState objects are the numbers          *)
(* 1..MaxNodes, an NFAArc is <<from, nonterminal_or_string, next>>.         *)

Nodes == 1..MaxNodes

\* the nodes some path of arcs leads to from the nodes of `seen`
RECURSIVE ReachableFrom(_, _)
ReachableFrom(arcs, seen) ==
    LET more == seen \cup {a[3] : a \in {x \in arcs : x[1] \in seen}}
    IN IF more = seen THEN seen ELSE ReachableFrom(arcs, more)

Fragment(arcs, finish) ==
    [from_rule |-> <<"r">>, arcs |-> arcs, start |-> 1, finish |-> finish]

nfa == rules[r]

----------------------------------------------------------------------------
(* _make_dfas *)

RECURSIVE addclosure(_, _, _)
RECURSIVE AddClosureAll(_, _, _)

\* addclosure that adds the node and follows no epsilon arc
addclosure_shallow(arcs, nfa_state, base_nfa_set) == base_nfa_set \cup {nfa_state}

\* addclosure(nfa_state, base_nfa_set): base_nfa_set after the call
addclosure(arcs, nfa_state, base_nfa_set) ==
    IF nfa_state \in base_nfa_set THEN base_nfa_set
    ELSE AddClosureAll(arcs,
                       {a[3] : a \in {x \in arcs : x[1] = nfa_state /\ x[2] = None}},
                       base_nfa_set \cup {nfa_state})

\* the loop `for nfa_arc in nfa_state.arcs` of addclosure, one target after the other
AddClosureAll(arcs, targets, base_nfa_set) ==
    IF targets = {} THEN base_nfa_set
    ELSE LET t == CHOOSE t \in targets : TRUE
         IN AddClosureAll(arcs, targets \ {t}, addclosure(arcs, t, base_nfa_set))

EmptyMap == [x \in {} |-> 0]

\* `next(iter(nfa_set))` of DFAState.__init__ (line 30) raises StopIteration
\* when nfa_set is empty
InitRaises(nfa_set) == nfa_set = {}

\* DFAState.__init__
DFAState(nfa_set, final) ==
    [nfa_set |-> nfa_set,
     is_final |-> final \in nfa_set,
     arcs |-> EmptyMap,
     ilabel_to_plan |-> EmptyMap,
     nonterminal_arcs |-> EmptyMap]

\* the items when the arcs are not grouped by label: one item per NFA arc
ArcItemsPerArc(arcs, nfa_set) ==
    {<<a[2], addclosure(arcs, a[3], {})>> : a \in {x \in arcs : x[1] \in nfa_set /\ x[2] # None}}

\* the items when only the first node of a label is closed and the further
\* nodes of the label are added to the set as they are
ArcItemsFirstClosed(arcs, nfa_set) ==
    LET labels == {a[2] : a \in {x \in arcs : x[1] \in nfa_set /\ x[2] # None}}
    IN {LET targets == {a[3] : a \in {x \in arcs : x[1] \in nfa_set /\ x[2] = l}}
            t == CHOOSE t \in targets : TRUE
        IN <<l, addclosure(arcs, t, {}) \cup targets>> : l \in labels}

\* the dict `arcs` built for one state: the pairs <<label, nfa_set>>
ArcItems(arcs, nfa_set) ==
    LET labels == {a[2] : a \in {x \in arcs : x[1] \in nfa_set /\ x[2] # None}}
    IN {<<l, AddClosureAll(arcs, {a[3] : a \in {x \in arcs : x[1] \in nfa_set /\ x[2] = l}}, {})>> :
            l \in labels}

\* every order in which a dict or set of items can be iterated
Perms(S) ==
    {p \in [1..Cardinality(S) -> S] : \A x \in S : \E n \in DOMAIN p : p[n] = x}

\* the index of the state of `states` whose nfa_set equals nfa_set, 0 if none
FindState(states, nfa_set) ==
    IF \E n \in DOMAIN states : states[n].nfa_set = nfa_set
    THEN CHOOSE n \in DOMAIN states :
            /\ states[n].nfa_set = nfa_set
            /\ \A m \in DOMAIN states : states[m].nfa_set = nfa_set => n <= m
    ELSE 0

\* DFAState.add_arc: ok is FALSE when an assertion of add_arc fails, else arcs
\* is self.arcs after the call
add_arc(arcs, next_, label) ==
    IF label = None \/ label \in DOMAIN arcs
    THEN [ok |-> FALSE, arcs |-> arcs]
    ELSE [ok |-> TRUE,
          arcs |-> [l \in DOMAIN arcs \cup {label} |-> IF l = label THEN next_ ELSE arcs[l]]]

\* the loop `for nonterminal_or_string, nfa_set in arcs.items()` for states[n],
\* over the items in the order `items`: the new `states`, and the exception
\* that ended the loop ("" if none): StopIteration of DFAState.__init__ or
\* AssertionError of add_arc
RECURSIVE LinkItems(_, _, _, _)
LinkItems(states, n, items, final) ==
    IF items = <<>> THEN [ok |-> TRUE, states |-> states, raised |-> ""]
    ELSE LET label == Head(items)[1]
             nfa_set == Head(items)[2]
             found == FindState(states, nfa_set)
             grown == IF found = 0 THEN Append(states, DFAState(nfa_set, final)) ELSE states
             nested == IF found = 0 THEN Len(states) + 1 ELSE found
             added == add_arc(grown[n].arcs, nested, label)
         IN IF found = 0 /\ InitRaises(nfa_set)
            THEN [ok |-> FALSE, states |-> states, raised |-> "StopIteration"]
            ELSE IF ~added.ok
            THEN [ok |-> FALSE, states |-> grown, raised |-> "AssertionError"]
            ELSE LinkItems([grown EXCEPT ![n].arcs = added.arcs], n, Tail(items), final)

Identity(n) == [x \in 1..n |-> x]

\* lines 121-123: the closure of start becomes state 0
MakeDfasSeed ==
    /\ pc = "start"
    /\ r <= Len(rules)
    /\ LET base_nfa_set == addclosure(nfa.arcs, nfa.start, {})
       IN IF InitRaises(base_nfa_set)
          THEN /\ pc' = "StopIteration"
               /\ UNCHANGED <<objs, dfas, merged>>
          ELSE /\ pc' = "make"
               /\ objs' = <<DFAState(base_nfa_set, nfa.finish)>>
               /\ dfas' = <<1>>
               /\ merged' = Identity(1)
    /\ k' = 1
    /\ run' = 0
    /\ UNCHANGED <<rules, r, changes, i, j>>
    /\ UNCHANGED gramVars

\* one iteration of `for state in states` (lines 124-145)
MakeDfasStep ==
    /\ pc = "make"
    /\ k <= Len(objs)
    /\ \E items \in Perms(ArcItems(nfa.arcs, objs[k].nfa_set)) :
          LET res == LinkItems(objs, k, items, nfa.finish)
          IN /\ objs' = res.states
             /\ dfas' = Identity(Len(res.states))
             /\ merged' = Identity(Len(res.states))
             /\ k' = IF res.ok THEN k + 1 ELSE k
             /\ pc' = IF res.ok THEN pc ELSE res.raised
    /\ UNCHANGED <<rules, r, changes, i, j, run>>
    /\ UNCHANGED gramVars

----------------------------------------------------------------------------
(* _simplify_dfas *)

\* an equality that compares the arcs alone
StateEqArcsOnly(self, other) ==
    /\ Cardinality(DOMAIN self.arcs) = Cardinality(DOMAIN other.arcs)
    /\ \A label \in DOMAIN self.arcs :
          label \in DOMAIN other.arcs /\ self.arcs[label] = other.arcs[label]

\* an equality that compares finality and the labels, not the targets
StateEqLabelsOnly(self, other) ==
    /\ self.is_final = other.is_final
    /\ DOMAIN self.arcs = DOMAIN other.arcs

\* an equality that compares the nfa_set as well
StateEqWithNfaSet(self, other) ==
    /\ self.nfa_set = other.nfa_set
    /\ self.is_final = other.is_final
    /\ Cardinality(DOMAIN self.arcs) = Cardinality(DOMAIN other.arcs)
    /\ \A label \in DOMAIN self.arcs :
          label \in DOMAIN other.arcs /\ self.arcs[label] = other.arcs[label]

\* DFAState.__eq__
StateEq(self, other) ==
    /\ self.is_final = other.is_final
    /\ Cardinality(DOMAIN self.arcs) = Cardinality(DOMAIN other.arcs)
    /\ \A label \in DOMAIN self.arcs :
          label \in DOMAIN other.arcs /\ self.arcs[label] = other.arcs[label]

\* DFAState.unifystate: the arcs of the state after the call
unifystate(arcs, old, new) ==
    [label \in DOMAIN arcs |-> IF arcs[label] = old THEN new ELSE arcs[label]]

\* del dfas[j]
DelAt(list, n) == [x \in 1..(Len(list) - 1) |-> IF x < n THEN list[x] ELSE list[x + 1]]

\* a pass that does not reset `changes`
PassStartKeep == changes

\* `changes = False` at the start of a pass (line 89)
PassStart == FALSE

\* _make_dfas returns (line 146); _simplify_dfas starts (lines 87-90)
SimplifyEnter ==
    /\ pc = "make"
    /\ k > Len(objs)
    /\ pc' = "scan"
    /\ run' = 1
    /\ changes' = PassStart
    /\ i' = 1
    /\ j' = 2
    /\ UNCHANGED <<rules, r, objs, dfas, k, merged>>
    /\ UNCHANGED gramVars

\* line 93, the states differ: next j
SimplifySkip ==
    /\ pc = "scan"
    /\ i <= Len(dfas)
    /\ j <= Len(dfas)
    /\ ~StateEq(objs[dfas[i]], objs[dfas[j]])
    /\ j' = j + 1
    /\ UNCHANGED <<rules, r, pc, objs, dfas, k, changes, i, run, merged>>
    /\ UNCHANGED gramVars

\* a unification that deletes state_i instead of state_j
MergedListDropFirst(list, a, b) == DelAt(list, a)

\* the list after `del dfas[j]` (line 95) for the pair (a, b) of positions
MergedList(list, a, b) == DelAt(list, b)

\* a repointing that leaves out state_i, the state the other was unified into
MergedObjsSkipTarget(heap, list, a, b) ==
    LET state_i == list[a]
        state_j == list[b]
        left == DelAt(list, b)
    IN [x \in DOMAIN heap |->
            IF x # state_i /\ \E n \in DOMAIN left : left[n] = x
            THEN [heap[x] EXCEPT !.arcs = unifystate(heap[x].arcs, state_j, state_i)]
            ELSE heap[x]]

\* lines 96-97: unifystate(state_j, state_i) on every state left in the list
MergedObjs(heap, list, a, b) ==
    LET state_i == list[a]
        state_j == list[b]
        left == DelAt(list, b)
    IN [x \in DOMAIN heap |->
            IF \E n \in DOMAIN left : left[n] = x
            THEN [heap[x] EXCEPT !.arcs = unifystate(heap[x].arcs, state_j, state_i)]
            ELSE heap[x]]

\* a unification after which the scan starts again from the first pair
SimplifyMergeRestart ==
    /\ pc = "scan"
    /\ i <= Len(dfas)
    /\ j <= Len(dfas)
    /\ StateEq(objs[dfas[i]], objs[dfas[j]])
    /\ dfas' = MergedList(dfas, i, j)
    /\ objs' = MergedObjs(objs, dfas, i, j)
    /\ merged' = [x \in DOMAIN merged |-> IF merged[x] = dfas[j] THEN dfas[i] ELSE merged[x]]
    /\ changes' = TRUE
    /\ i' = 1
    /\ j' = 2
    /\ UNCHANGED <<rules, r, pc, k, run>>
    /\ UNCHANGED gramVars

\* lines 93-99, the states are equal: unify, then break out of the j loop
SimplifyMerge ==
    /\ pc = "scan"
    /\ i <= Len(dfas)
    /\ j <= Len(dfas)
    /\ StateEq(objs[dfas[i]], objs[dfas[j]])
    /\ dfas' = MergedList(dfas, i, j)
    /\ objs' = MergedObjs(objs, dfas, i, j)
    /\ merged' = [x \in DOMAIN merged |-> IF merged[x] = dfas[j] THEN dfas[i] ELSE merged[x]]
    /\ changes' = TRUE
    /\ i' = i + 1
    /\ j' = i + 2
    /\ UNCHANGED <<rules, r, pc, k, run>>
    /\ UNCHANGED gramVars

\* the j loop is exhausted: next i (line 90)
SimplifyNextI ==
    /\ pc = "scan"
    /\ i <= Len(dfas)
    /\ j > Len(dfas)
    /\ i' = i + 1
    /\ j' = i + 2
    /\ UNCHANGED <<rules, r, pc, objs, dfas, k, changes, run, merged>>
    /\ UNCHANGED gramVars

\* a loop that never goes round again
LoopNever == FALSE

\* whether the while loop of line 88 goes round again
LoopAgain == changes

\* the i loop is exhausted: back to `while changes` (lines 88-90)
SimplifyPassEnd ==
    /\ pc = "scan"
    /\ i > Len(dfas)
    /\ IF LoopAgain
       THEN /\ changes' = PassStart
            /\ i' = 1
            /\ j' = 2
            /\ pc' = pc
       ELSE /\ pc' = "simplified"
            /\ UNCHANGED <<changes, i, j>>
    /\ UNCHANGED <<rules, r, objs, dfas, k, run, merged>>
    /\ UNCHANGED gramVars

\* _simplify_dfas is called once more on the list it left
SimplifyAgain ==
    /\ pc = "simplified"
    /\ run = 1
    /\ run' = 2
    /\ pc' = "scan"
    /\ changes' = PassStart
    /\ i' = 1
    /\ j' = 2
    /\ UNCHANGED <<rules, r, objs, dfas, k, merged>>
    /\ UNCHANGED gramVars

----------------------------------------------------------------------------
(* generate_grammar *)

MaxRules == 2

\* the name of the x-th rule of the grammar
RuleName(x) == <<"r", ToString(x)>>

\* the order of rule_to_dfas.items(): the rules have different names, so it
\* is the order in which line 192 stored them
RuleOrder == [x \in DOMAIN rules |-> rules[x].from_rule]

\* the attributes of token_namespace
TokenNames == {TokN}

\* the rule is compiled and stored (lines 192-196)
StoreRule ==
    /\ pc = "simplified"
    /\ rule_to_dfas' =
          [n \in DOMAIN rule_to_dfas \cup {nfa.from_rule} |->
              IF n = nfa.from_rule THEN [objs |-> objs, dfas |-> dfas] ELSE rule_to_dfas[n]]
    /\ start_nonterminal' =
          IF start_nonterminal = None THEN nfa.from_rule ELSE start_nonterminal
    /\ r' = r + 1
    /\ pc' = "start"
    /\ UNCHANGED <<rules, reserved_strings, rs_heap, cr, cs, pending, error>>
    /\ UNCHANGED ruleVars

\* the DFAState the compilation pass is at
CompileState(table, x, y) ==
    LET entry == table[RuleOrder[x]] IN entry.objs[entry.dfas[y]]

\* the parser has no more rules: the compilation pass starts (lines 198-201)
CompileBegin ==
    /\ pc = "start"
    /\ r > Len(rules)
    /\ reserved_strings' = EmptyMap
    /\ cr' = 1
    /\ cs' = 1
    /\ pending' = DOMAIN CompileState(rule_to_dfas, 1, 1).arcs
    /\ pc' = "compile"
    /\ UNCHANGED <<rules, r, rule_to_dfas, start_nonterminal, rs_heap, error>>
    /\ UNCHANGED ruleVars

\* literal_eval of a quoted label that has no backslash: ok is FALSE when it
\* raises SyntaxError, else value is the text between the quotes
literal_eval(label) ==
    LET q == label[1]
        triple == Len(label) >= 6 /\ \A x \in {1, 2, 3, Len(label) - 2, Len(label) - 1, Len(label)} :
                      label[x] = q
        first == IF triple THEN 4 ELSE 2
        last == IF triple THEN Len(label) - 3 ELSE Len(label) - 1
        closed == Len(label) >= 2 /\ label[Len(label)] = q
        inner == SubSeq(label, first, last)
    IN IF closed /\ \A x \in DOMAIN inner : inner[x] # q
       THEN [ok |-> TRUE, value |-> inner]
       ELSE [ok |-> FALSE, value |-> <<>>]

StartsWith(label, prefix) ==
    Len(label) >= Len(prefix) /\ SubSeq(label, 1, Len(prefix)) = prefix

\* _make_transition with its two assertions compiled away (python -O)
make_transition_unchecked(token_namespace, reserved_syntax_strings, heap, label) ==
    IF IsAlpha(label[1])
    THEN IF label \in token_namespace
         THEN [raised |-> "", key |-> <<"token", label>>,
               reserved |-> reserved_syntax_strings, heap |-> heap]
         ELSE [raised |-> "AttributeError", key |-> <<>>,
               reserved |-> reserved_syntax_strings, heap |-> heap]
    ELSE LET lit == literal_eval(label)
         IN IF ~lit.ok
            THEN [raised |-> "SyntaxError", key |-> <<>>,
                  reserved |-> reserved_syntax_strings, heap |-> heap]
            ELSE IF lit.value \in DOMAIN reserved_syntax_strings
            THEN [raised |-> "", key |-> <<"ReservedString", reserved_syntax_strings[lit.value]>>,
                  reserved |-> reserved_syntax_strings, heap |-> heap]
            ELSE [raised |-> "", key |-> <<"ReservedString", Len(heap) + 1>>,
                  reserved |-> [v \in DOMAIN reserved_syntax_strings \cup {lit.value} |->
                                   IF v = lit.value THEN Len(heap) + 1
                                   ELSE reserved_syntax_strings[v]],
                  heap |-> Append(heap, lit.value)]

\* _make_transition that makes a new ReservedString without looking one up
make_transition_fresh(token_namespace, reserved_syntax_strings, heap, label) ==
    LET t == make_transition_unchecked(token_namespace, reserved_syntax_strings, heap, label)
    IN IF t.raised = "" /\ t.key[1] = "ReservedString" /\ t.heap = heap
       THEN [raised |-> "", key |-> <<"ReservedString", Len(heap) + 1>>,
             reserved |-> [reserved_syntax_strings EXCEPT ![literal_eval(label).value] = Len(heap) + 1],
             heap |-> Append(heap, literal_eval(label).value)]
       ELSE t

\* _make_transition (lines 215-229): the exception it raises ("" if none), the
\* key it returns, and reserved_syntax_strings and the ReservedString objects
\* after the call
make_transition(token_namespace, reserved_syntax_strings, heap, label) ==
    IF ~IsAlpha(label[1]) /\
       (label[1] \notin {DQ, SQ} \/ StartsWith(label, <<DQ, DQ, DQ>>) \/ StartsWith(label, <<SQ, SQ, SQ>>))
    THEN [raised |-> "AssertionError", key |-> <<>>,
          reserved |-> reserved_syntax_strings, heap |-> heap]
    ELSE make_transition_unchecked(token_namespace, reserved_syntax_strings, heap, label)

\* a test that knows only the rules up to the one being compiled
IsRuleSoFar(table, x, label) == \E y \in 1..x : RuleOrder[y] = label

\* `terminal_or_nonterminal in rule_to_dfas` (line 202), asked while rule x is compiled
IsRule(table, x, label) == label \in DOMAIN table

\* DFAPlan(next_dfa)
DFAPlan(next_dfa) == [next_dfa |-> next_dfa]

\* d[key] = value
DictSet(d, key, value) == [x \in DOMAIN d \cup {key} |-> IF x = key THEN value ELSE d[x]]

\* one iteration of `for terminal_or_nonterminal, next_dfa in dfa_state.arcs.items()`
\* (lines 201-210)
CompileArc ==
    /\ pc = "compile"
    /\ \E label \in pending :
          LET name == RuleOrder[cr]
              sid == rule_to_dfas[name].dfas[cs]
              dfa_state == rule_to_dfas[name].objs[sid]
              next_dfa == dfa_state.arcs[label]
              t == make_transition(TokenNames, reserved_strings, rs_heap, label)
          IN IF IsRule(rule_to_dfas, cr, label)
             THEN /\ rule_to_dfas' =
                        [rule_to_dfas EXCEPT ![name].objs[sid].nonterminal_arcs =
                            DictSet(dfa_state.nonterminal_arcs, label, next_dfa)]
                  /\ pending' = pending \ {label}
                  /\ UNCHANGED <<reserved_strings, rs_heap, pc, error>>
             ELSE IF t.raised # ""
             THEN /\ pc' = "error"
                  /\ error' = [kind |-> t.raised, label |-> label]
                  /\ UNCHANGED <<rule_to_dfas, reserved_strings, rs_heap, pending>>
             ELSE /\ rule_to_dfas' =
                        [rule_to_dfas EXCEPT ![name].objs[sid].ilabel_to_plan =
                            DictSet(dfa_state.ilabel_to_plan, t.key, DFAPlan(next_dfa))]
                  /\ reserved_strings' = t.reserved
                  /\ rs_heap' = t.heap
                  /\ pending' = pending \ {label}
                  /\ UNCHANGED <<pc, error>>
    /\ UNCHANGED <<rules, r, start_nonterminal, cr, cs>>
    /\ UNCHANGED ruleVars

\* the arcs of the state are done: the next state, of this rule or of the next
\* (lines 199-201)
CompileNextState ==
    /\ pc = "compile"
    /\ pending = {}
    /\ cs < Len(rule_to_dfas[RuleOrder[cr]].dfas) \/ cr < Len(RuleOrder)
    /\ LET more == cs < Len(rule_to_dfas[RuleOrder[cr]].dfas)
           x == IF more THEN cr ELSE cr + 1
           y == IF more THEN cs + 1 ELSE 1
       IN /\ cr' = x
          /\ cs' = y
          /\ pending' = DOMAIN CompileState(rule_to_dfas, x, y).arcs
    /\ UNCHANGED <<rules, r, pc, rule_to_dfas, start_nonterminal, reserved_strings, rs_heap, error>>
    /\ UNCHANGED ruleVars

\* the loops are over: the Grammar is returned (line 212)
CompileReturn ==
    /\ pc = "compile"
    /\ pending = {}
    /\ cs = Len(rule_to_dfas[RuleOrder[cr]].dfas)
    /\ cr = Len(RuleOrder)
    /\ pc' = "returned"
    /\ UNCHANGED <<rules, r, rule_to_dfas, start_nonterminal, reserved_strings, rs_heap,
                   cr, cs, pending, error>>
    /\ UNCHANGED ruleVars

----------------------------------------------------------------------------
(* The fragments of the grammars of GrammarSpec *)

\* rule: l
Term(l) == [arcs |-> {<<1, l, 2>>}, finish |-> 2]

\* rule: l1 | l2
Alt(l1, l2) == [arcs |-> {<<1, l1, 2>>, <<1, l2, 3>>, <<2, None, 3>>}, finish |-> 3]

\* rule: l1 'b' | l2 N
AltSeq(l1, l2) ==
    [arcs |-> {<<1, l1, 2>>, <<2, LitB, 4>>, <<1, l2, 3>>, <<3, TokN, 4>>}, finish |-> 4]

\* rule: l* t1 t2 ..., as GrammarParser builds it: the item l* is the node 1
\* with 1 -l-> 2 and 2 -> 1, and every further item t is a new pair of nodes
\* c -t-> d with an epsilon arc from the end of the item before it to c
StarThen(l, tail) ==
    Fragment({<<1, l, 2>>, <<2, None, 1>>}
                 \cup {<<IF n = 1 THEN 1 ELSE 2 * n, None, 2 * n + 1>> : n \in DOMAIN tail}
                 \cup {<<2 * n + 1, tail[n], 2 * n + 2>> : n \in DOMAIN tail},
             IF tail = <<>> THEN 1 ELSE 2 * Len(tail) + 2)

Literals == {LitA, LitADouble}

Bodies ==
    {Term(l) : l \in Literals \cup {TokN, TokX, LitATriple, LitOpen}
                     \cup {RuleName(x) : x \in 1..MaxRules}}
    \cup {Alt(l1, l2) : l1 \in Literals \cup {TokN}, l2 \in Literals \cup {TokN}}
    \cup {AltSeq(l1, l2) : l1 \in Literals, l2 \in Literals}

Grammars ==
    UNION {{[x \in 1..n |->
                [from_rule |-> RuleName(x), arcs |-> g[x].arcs, start |-> 1,
                 finish |-> g[x].finish]] : g \in [1..n -> Bodies]} : n \in 1..MaxRules}

----------------------------------------------------------------------------
(* Compiling one rule: _make_dfas, _simplify_dfas, _simplify_dfas again *)

MaxLiveArcs == 3

LiveLabels == {LitA}

\* GrammarParser draws one more arc of the fragment: from a node that start
\* leads to, to such a node or to a new one (nodes are numbered as they appear)
AddArc(labels, limit) ==
    /\ pc = "parse"
    /\ Cardinality(nfa.arcs) < limit
    /\ \E a \in Nodes \X (labels \cup {None}) \X Nodes :
          LET reach == ReachableFrom(nfa.arcs, {nfa.start})
          IN /\ a \notin nfa.arcs
             /\ a[1] \in reach
             /\ a[3] <= Cardinality(reach) + 1
             /\ rules' = [rules EXCEPT ![r].arcs = nfa.arcs \cup {a}]
    /\ UNCHANGED <<r, pc>>
    /\ UNCHANGED ruleVars
    /\ UNCHANGED gramVars

ParseAddArc == AddArc(RuleLabels, MaxArcs)

ParseAddArcLive == AddArc(LiveLabels, MaxLiveArcs)

\* GrammarParser yields the fragment (start, finish)
ParseYield ==
    /\ pc = "parse"
    /\ \E f \in ReachableFrom(nfa.arcs, {nfa.start}) :
          rules' = [rules EXCEPT ![r].finish = f]
    /\ pc' = "start"
    /\ UNCHANGED r
    /\ UNCHANGED ruleVars
    /\ UNCHANGED gramVars

InitRest ==
    /\ r = 1
    /\ objs = <<>>
    /\ dfas = <<>>
    /\ k = 0
    /\ changes = FALSE
    /\ i = 0
    /\ j = 0
    /\ run = 0
    /\ merged = <<>>
    /\ rule_to_dfas = EmptyMap
    /\ start_nonterminal = None
    /\ reserved_strings = EmptyMap
    /\ rs_heap = <<>>
    /\ cr = 0
    /\ cs = 0
    /\ pending = {}
    /\ error = [kind |-> "", label |-> None]

Init ==
    /\ rules = <<Fragment({}, 1)>>
    /\ pc = "parse"
    /\ InitRest

Next ==
    \/ ParseAddArc
    \/ ParseYield
    \/ MakeDfasSeed
    \/ MakeDfasStep
    \/ SimplifyEnter
    \/ SimplifySkip
    \/ SimplifyMerge
    \/ SimplifyNextI
    \/ SimplifyPassEnd
    \/ SimplifyAgain

Spec == Init /\ [][Next]_vars

LiveNext ==
    \/ ParseAddArcLive
    \/ ParseYield
    \/ MakeDfasSeed
    \/ MakeDfasStep
    \/ SimplifyEnter
    \/ SimplifySkip
    \/ SimplifyMerge
    \/ SimplifyNextI
    \/ SimplifyPassEnd
    \/ SimplifyAgain

\* the program is one thread that keeps running until it returns
LiveSpec == Init /\ [][LiveNext]_vars /\ WF_vars(LiveNext)

\* generate_grammar on a grammar of one rule or more
GrammarInit ==
    /\ rules \in Grammars
    /\ pc = "start"
    /\ InitRest

GrammarNext ==
    \/ MakeDfasSeed
    \/ MakeDfasStep
    \/ SimplifyEnter
    \/ SimplifySkip
    \/ SimplifyMerge
    \/ SimplifyNextI
    \/ SimplifyPassEnd
    \/ StoreRule
    \/ CompileBegin
    \/ CompileArc
    \/ CompileNextState
    \/ CompileReturn

GrammarSpec == GrammarInit /\ [][GrammarNext]_vars

----------------------------------------------------------------------------
(* Compiling one rule of the form l* t1 ... tn, n <= MaxTail: lists long   *)
(* enough for the scan of _simplify_dfas to go on after a merge            *)

MaxTail == 2

ScanFragments ==
    {StarThen(l, t) : l \in RuleLabels, t \in UNION {[1..n -> RuleLabels] : n \in 0..MaxTail}}

ScanInit ==
    /\ rules \in {<<f>> : f \in ScanFragments}
    /\ pc = "start"
    /\ InitRest

ScanNext ==
    \/ MakeDfasSeed
    \/ MakeDfasStep
    \/ SimplifyEnter
    \/ SimplifySkip
    \/ SimplifyMerge
    \/ SimplifyNextI
    \/ SimplifyPassEnd
    \/ SimplifyAgain

ScanSpec == ScanInit /\ [][ScanNext]_vars

----------------------------------------------------------------------------
(* What the automata accept, stated on the NFA without the construction *)

\* the nodes reachable from the nodes of S over epsilon arcs alone
RECURSIVE EpsReach(_, _)
EpsReach(arcs, S) ==
    LET more == S \cup {a[3] : a \in {x \in arcs : x[1] \in S /\ x[2] = None}}
    IN IF more = S THEN S ELSE EpsReach(arcs, more)

\* the nodes at which a path from a node of S can end that spells w once its
\* epsilon arcs are skipped
RECURSIVE NfaAfter(_, _, _)
NfaAfter(arcs, S, w) ==
    IF w = <<>> THEN EpsReach(arcs, S)
    ELSE NfaAfter(arcs,
                  {a[3] : a \in {x \in arcs : x[1] \in EpsReach(arcs, S) /\ x[2] = Head(w)}},
                  Tail(w))

NfaAccepts(frag, w) == frag.finish \in NfaAfter(frag.arcs, {frag.start}, w)

\* the state the DFA is in after w from state s, 0 when it is stuck
RECURSIVE DfaAfter(_, _, _)
DfaAfter(heap, s, w) ==
    IF w = <<>> \/ s = 0 THEN s
    ELSE DfaAfter(heap,
                  IF Head(w) \in DOMAIN heap[s].arcs THEN heap[s].arcs[Head(w)] ELSE 0,
                  Tail(w))

DfaAccepts(heap, first, w) ==
    LET s == DfaAfter(heap, first, w) IN s # 0 /\ heap[s].is_final

Words == UNION {[1..n -> RuleLabels] : n \in 0..MaxWord}

\* the NFA from the nodes S and the DFA from state s (0: stuck) accept the same
\* words of up to n labels: they agree on the empty word and, label by label,
\* on the words one label shorter from where the label leads
RECURSIVE SameWords(_, _, _, _, _)
SameWords(frag, S, heap, s, n) ==
    LET closed == EpsReach(frag.arcs, S)
    IN IF closed = {} /\ s = 0 THEN TRUE
       ELSE /\ (frag.finish \in closed) <=> (s # 0 /\ heap[s].is_final)
            /\ n > 0 =>
                  \A l \in RuleLabels :
                      SameWords(frag,
                                {a[3] : a \in {x \in frag.arcs : x[1] \in closed /\ x[2] = l}},
                                heap,
                                IF s # 0 /\ l \in DOMAIN heap[s].arcs THEN heap[s].arcs[l] ELSE 0,
                                n - 1)

MakeDfasReturned == pc = "make" /\ k > Len(objs)

HasEpsilonCycle(arcs) ==
    \E a \in arcs : a[2] = None /\ a[1] \in EpsReach(arcs, {a[3]})

HasLabelledCycleToStart(frag) ==
    \E a \in frag.arcs : a[2] # None /\ frag.start \in EpsReach(frag.arcs, {a[3]})

Merges == Len(objs) - Len(dfas)

----------------------------------------------------------------------------
(* C1: the DFA _make_dfas returns accepts a word (up to MaxWord labels) iff *)
(* some path of the NFA from start to finish spells it, epsilon arcs       *)
(* skipped.                                                                *)
C1_MakeDfasEquivalent ==
    MakeDfasReturned =>
        \A w \in Words : DfaAccepts(objs, dfas[1], w) <=> NfaAccepts(nfa, w)

\* _make_dfas has returned a DFA of two states or more for an NFA with an
\* epsilon cycle, which accepts some word of MaxWord labels and rejects another
C1_Witness ==
    /\ MakeDfasReturned
    /\ HasEpsilonCycle(nfa.arcs)
    /\ Len(objs) >= 2
    /\ \E w \in Words : Len(w) = MaxWord /\ DfaAccepts(objs, dfas[1], w)
    /\ \E w \in Words : ~DfaAccepts(objs, dfas[1], w)

(* C2: add_arc's assertion never fails, and no state of the DFA has an arc *)
(* labelled None.                                                          *)
C2_DistinctLabels ==
    /\ pc # "AssertionError"
    /\ \A s \in DOMAIN objs : None \notin DOMAIN objs[s].arcs

\* a state was linked whose NFA nodes have two arcs with one label to two
\* different nodes, and an epsilon arc
C2_Witness ==
    /\ pc = "make"
    /\ k > 1
    /\ \E a, b \in nfa.arcs :
          /\ a[1] \in objs[1].nfa_set /\ b[1] \in objs[1].nfa_set
          /\ a[2] = b[2] /\ a[2] # None /\ a[3] # b[3]
    /\ \E a \in nfa.arcs : a[2] = None /\ a[1] \in objs[1].nfa_set
    /\ DOMAIN objs[1].arcs # {}

(* C3: every state is final iff finish is in its nfa_set, and the state of *)
(* the list a state was unified into (over any number of merges) is final  *)
(* iff that state is.                                                      *)
C3_FinalPreserved ==
    \A s \in DOMAIN objs :
        /\ objs[s].is_final = (nfa.finish \in objs[s].nfa_set)
        /\ \E n \in DOMAIN dfas : dfas[n] = merged[s]
        /\ objs[merged[s]].is_final = objs[s].is_final

\* a final state was unified into another whose nfa_set differs, and the list
\* has a state that is not final
C3_Witness ==
    /\ pc = "simplified"
    /\ \E s \in DOMAIN objs :
          /\ merged[s] # s
          /\ objs[s].is_final
          /\ objs[s].nfa_set # objs[merged[s]].nfa_set
    /\ \E n \in DOMAIN dfas : ~objs[dfas[n]].is_final

NoEqualPair ==
    \A a, b \in DOMAIN dfas : a # b => ~StateEq(objs[dfas[a]], objs[dfas[b]])

(* C7: when _simplify_dfas returns no two states of the list are equal, and *)
(* a second call changes neither the list nor any state.                    *)
C7_Fixpoint ==
    /\ [](pc = "simplified" => NoEqualPair)
    /\ [][run = 2 => (dfas' = dfas /\ objs' = objs)]_vars

\* the second call has returned for a list the first call shrank and left
\* with two states or more
C7_Witness ==
    /\ pc = "simplified"
    /\ run = 2
    /\ Merges >= 1
    /\ Len(dfas) >= 2

(* C8: compiling one rule terminates: both calls of _simplify_dfas return. *)
C8_Terminates == <>(pc = "simplified" /\ run = 2)

\* everything returned for an NFA with an epsilon cycle and a labelled arc
\* back to start, after a merge
C8_Witness ==
    /\ pc = "simplified"
    /\ run = 2
    /\ HasEpsilonCycle(nfa.arcs)
    /\ HasLabelledCycleToStart(nfa)
    /\ Merges >= 1

(* C9: the first state of the list is the state built from the closure of  *)
(* start, and the states of the list are in the order of their creation.   *)
C9_InitialFirst ==
    dfas # <<>> =>
        /\ dfas[1] = 1
        /\ nfa.start \in objs[1].nfa_set
        /\ \A a, b \in DOMAIN dfas : a < b => dfas[a] < dfas[b]

\* _simplify_dfas returned after removing a state that was not the last
C9_Witness ==
    /\ pc = "simplified"
    /\ \E s \in DOMAIN objs :
          /\ \A n \in DOMAIN dfas : dfas[n] # s
          /\ \E n \in DOMAIN dfas : dfas[n] > s

(* C11: for the rule item: 'a'* (start = finish = n0, n0 -'a'-> n1,        *)
(* n1 -> n0) _make_dfas and _simplify_dfas leave exactly one state: it is  *)
(* final and its only arc, labelled 'a', points to itself.                 *)
C11_StarOneState ==
    (pc = "simplified" /\ nfa = StarThen(LitA, <<>>)) =>
        /\ Len(dfas) = 1
        /\ dfas[1] = 1
        /\ objs[dfas[1]].is_final
        /\ DOMAIN objs[dfas[1]].arcs = {LitA}
        /\ objs[dfas[1]].arcs[LitA] = dfas[1]

\* the rule 'a'* is compiled: _make_dfas made two states and _simplify_dfas
\* unified them
C11_Witness ==
    /\ pc = "simplified"
    /\ nfa = StarThen(LitA, <<>>)
    /\ Len(objs) = 2
    /\ Merges = 1

\* closed under epsilon arcs: every epsilon arc of a member leads to a member
EpsilonClosed(arcs, S) == \A a \in arcs : (a[1] \in S /\ a[2] = None) => a[3] \in S

(* C12: every node set _make_dfas makes a state of is non-empty (so         *)
(* DFAState.__init__ does not raise) and closed under epsilon arcs, and    *)
(* closing it again gives the same set.                                    *)
C12_ClosedNodeSets ==
    /\ pc # "StopIteration"
    /\ pc # "parse" =>
          \A s \in DOMAIN objs :
              /\ objs[s].nfa_set # {}
              /\ EpsilonClosed(nfa.arcs, objs[s].nfa_set)
              /\ EpsReach(nfa.arcs, objs[s].nfa_set) = objs[s].nfa_set
              /\ AddClosureAll(nfa.arcs, objs[s].nfa_set, {}) = objs[s].nfa_set

\* a state was made of a set that two arcs with one label to two different
\* nodes grew, and an epsilon arc of one of the two nodes added a third node
C12_Witness ==
    /\ pc = "make"
    /\ \E s \in DOMAIN objs : \E a, b, c \in nfa.arcs :
          /\ s > 1
          /\ a[2] = b[2] /\ a[2] # None /\ a[3] # b[3]
          /\ a[1] \in objs[1].nfa_set /\ b[1] \in objs[1].nfa_set
          /\ c[1] = a[3] /\ c[2] = None /\ c[3] \notin {a[3], b[3]}
          /\ {a[3], b[3], c[3]} \subseteq objs[s].nfa_set
          /\ objs[1].arcs[a[2]] = s

\* line 93 is about to compare the pair (i, j)
PairAt == pc = "scan" /\ i <= Len(dfas) /\ j <= Len(dfas)

(* C13 as claimed: once a state was merged (`changes` is True until the    *)
(* scan begins again, line 89), no pair is compared before the scan is     *)
(* back at the first pair.                                                 *)
C13_RestartAfterMerge == (PairAt /\ changes) => (i = 1 /\ j = 2)

(* C13 as amended: a merge of j into i ends the inner loop only; the scan  *)
(* goes on in the same pass with the states after i, first with the pair   *)
(* (i + 1, i + 2), and no state at or before i is the first of a pair      *)
(* again in that pass; `changes` is cleared only when the scan begins      *)
(* again from the first pair, and _simplify_dfas returns only after a      *)
(* pass without a merge.                                                   *)
C13_RescanAfterPass ==
    /\ [][Len(dfas') < Len(dfas) =>
              (pc' = "scan" /\ changes' /\ i' = i + 1 /\ j' = i + 2)]_vars
    /\ [][(pc = "scan" /\ changes /\ changes') => i' >= i]_vars
    /\ [][(changes /\ ~changes') => (pc' = "scan" /\ i' = 1 /\ j' = 2)]_vars
    /\ [][(pc = "scan" /\ pc' = "simplified") => ~changes]_vars
    /\ [](pc = "simplified" => NoEqualPair)

\* the first call's scan is back at the first pair after a pass that merged
\* a state and then compared the states after it
C13_Witness ==
    /\ PairAt
    /\ run = 1
    /\ ~changes
    /\ Merges >= 1
    /\ i = 1 /\ j = 2
    /\ Len(dfas) >= 3

\* a step of _simplify_dfas that unified two states
MergeStep == Len(dfas') < Len(dfas)

(* C14: every merge of _simplify_dfas leaves the words (up to MaxWord       *)
(* labels) that lead from state 0 to a final state as they were, and the   *)
(* list _simplify_dfas returns accepts a word iff the DFA _make_dfas       *)
(* returned did, which is iff the NFA of the rule does.                    *)
C14_LanguagePreserved ==
    /\ [][MergeStep =>
              \A w \in Words :
                  DfaAccepts(objs', dfas'[1], w) <=> DfaAccepts(objs, dfas[1], w)]_vars
    /\ []((MakeDfasReturned \/ pc = "simplified") =>
              SameWords(nfa, {nfa.start}, objs, dfas[1], MaxWord))

\* _simplify_dfas returned a list it shrank to two states or more, which
\* accepts some word of MaxWord labels and rejects another
C14_Witness ==
    /\ pc = "simplified"
    /\ Merges >= 1
    /\ Len(dfas) >= 2
    /\ \E w \in Words : Len(w) = MaxWord /\ DfaAccepts(objs, dfas[1], w)
    /\ \E w \in Words : ~DfaAccepts(objs, dfas[1], w)

\* the states of the list
InList(list) == {list[n] : n \in DOMAIN list}

\* every arc of every state of the list points to a state of the list
ArcsInList ==
    \A s \in InList(dfas) : \A l \in DOMAIN objs[s].arcs : objs[s].arcs[l] \in InList(dfas)

(* C15: at every step of _make_dfas and _simplify_dfas every arc of a      *)
(* state of the list points to a state of the list; a merge removes one    *)
(* state, repoints to the state it was unified into every arc of a         *)
(* remaining state that pointed to the removed one, and changes no other   *)
(* arc, no label, no finality and no nfa_set.                              *)
C15_NoDanglingArcs ==
    /\ []ArcsInList
    /\ [][MergeStep =>
              LET old == CHOOSE x \in InList(dfas) : x \notin InList(dfas')
                  new == merged'[old]
              IN /\ InList(dfas') = InList(dfas) \ {old}
                 /\ new \in InList(dfas')
                 /\ \A s \in DOMAIN objs :
                       /\ DOMAIN objs'[s].arcs = DOMAIN objs[s].arcs
                       /\ objs'[s].is_final = objs[s].is_final
                       /\ objs'[s].nfa_set = objs[s].nfa_set
                       /\ \A l \in DOMAIN objs[s].arcs :
                             objs'[s].arcs[l] =
                                 IF s \in InList(dfas') /\ objs[s].arcs[l] = old
                                 THEN new ELSE objs[s].arcs[l]]_vars

\* a state with an arc to itself was unified into a state that pointed to
\* it: the arc of that state is now an arc to itself
C15_Witness ==
    /\ pc = "scan"
    /\ \E x \in DOMAIN objs : \E l \in DOMAIN objs[x].arcs :
          /\ x \notin InList(dfas)
          /\ objs[x].arcs[l] = x
          /\ merged[x] \in InList(dfas)
          /\ objs[merged[x]].arcs[l] = merged[x]

----------------------------------------------------------------------------
(* The compiled grammar *)

AllStored == r > Len(rules)

RuleNames == {rules[x].from_rule : x \in DOMAIN rules}

\* the states of the lists stored in rule_to_dfas, as <<rule name, identity>>
StoredStates ==
    UNION {{<<n, rule_to_dfas[n].dfas[x]>> : x \in DOMAIN rule_to_dfas[n].dfas} :
              n \in DOMAIN rule_to_dfas}

Stored(p) == rule_to_dfas[p[1]].objs[p[2]]

IsLiteral(l) == l # None /\ l[1] \in {SQ, DQ}

IsTripleQuoted(l) == StartsWith(l, <<SQ, SQ, SQ>>) \/ StartsWith(l, <<DQ, DQ, DQ>>)

\* the terminal labels of a stored state
TerminalLabels(p) == {l \in DOMAIN Stored(p).arcs : l \notin RuleNames}

\* the key a terminal label resolves to: its token, or the ReservedString the
\* table holds for its value
KeyOf(l) ==
    IF IsLiteral(l)
    THEN <<"ReservedString",
           IF literal_eval(l).value \in DOMAIN reserved_strings
           THEN reserved_strings[literal_eval(l).value] ELSE 0>>
    ELSE <<"token", l>>

\* no two states of a stored list are equal under DFAState.__eq__
Minimized(entry) ==
    \A a, b \in DOMAIN entry.dfas :
        a # b => ~StateEq(entry.objs[entry.dfas[a]], entry.objs[entry.dfas[b]])

ViewsEmpty ==
    \A p \in StoredStates :
        Stored(p).ilabel_to_plan = EmptyMap /\ Stored(p).nonterminal_arcs = EmptyMap

(* C4: no two ReservedString objects have the same value; in the returned  *)
(* grammar every literal label, whatever its rule, state and quotes, has   *)
(* as key the one ReservedString that reserved_strings holds for its value. *)
C4_Interned ==
    /\ \A a, b \in DOMAIN rs_heap : rs_heap[a] = rs_heap[b] => a = b
    /\ pc = "returned" =>
          \A p \in StoredStates :
              /\ \A l \in TerminalLabels(p) :
                    IsLiteral(l) =>
                        LET v == literal_eval(l).value
                        IN /\ v \in DOMAIN reserved_strings
                           /\ rs_heap[reserved_strings[v]] = v
                           /\ KeyOf(l) \in DOMAIN Stored(p).ilabel_to_plan
              /\ \A key \in DOMAIN Stored(p).ilabel_to_plan :
                    key[1] = "ReservedString" =>
                        /\ key[2] \in DOMAIN rs_heap
                        /\ reserved_strings[rs_heap[key[2]]] = key[2]

\* a grammar was returned in which 'a' is a label of one rule and "a" of another
C4_Witness ==
    /\ pc = "returned"
    /\ \E p, q \in StoredStates :
          /\ p[1] # q[1]
          /\ LitA \in DOMAIN Stored(p).arcs
          /\ LitADouble \in DOMAIN Stored(q).arcs

(* C5: the compilation pass runs only when every rule is stored, each with *)
(* a list _simplify_dfas has brought to its fixpoint; it raises no error   *)
(* on a label that is a rule name; in the returned grammar every           *)
(* arc labelled with a rule name is in nonterminal_arcs with its target,   *)
(* and every key of ilabel_to_plan is the key of a terminal label.         *)
C5_NonterminalArcs ==
    /\ ~AllStored => pc \notin {"compile", "returned", "error"} /\ ViewsEmpty
    /\ AllStored => RuleNames = DOMAIN rule_to_dfas
    /\ \A n \in DOMAIN rule_to_dfas : Minimized(rule_to_dfas[n])
    /\ pc = "error" => error.label \notin RuleNames
    /\ pc = "returned" =>
          \A p \in StoredStates :
              /\ \A l \in DOMAIN Stored(p).arcs :
                    l \in RuleNames =>
                        /\ l \in DOMAIN Stored(p).nonterminal_arcs
                        /\ Stored(p).nonterminal_arcs[l] = Stored(p).arcs[l]
              /\ \A key \in DOMAIN Stored(p).ilabel_to_plan :
                    \E l \in TerminalLabels(p) : KeyOf(l) = key
              /\ DOMAIN Stored(p).nonterminal_arcs \subseteq RuleNames

\* a grammar was returned whose first rule names the second and whose second
\* names the first
C5_Witness ==
    /\ pc = "returned"
    /\ Len(rules) >= 2
    /\ \E p, q \in StoredStates :
          /\ p[1] = RuleName(1) /\ RuleName(2) \in DOMAIN Stored(p).nonterminal_arcs
          /\ q[1] = RuleName(2) /\ RuleName(1) \in DOMAIN Stored(q).nonterminal_arcs

(* C6: in the returned grammar every terminal arc has, under the key its   *)
(* label resolves to, a plan that wraps the arc's target.                  *)
C6_EveryArcPlanned ==
    pc = "returned" =>
        \A p \in StoredStates : \A l \in TerminalLabels(p) :
            /\ KeyOf(l) \in DOMAIN Stored(p).ilabel_to_plan
            /\ Stored(p).ilabel_to_plan[KeyOf(l)] = DFAPlan(Stored(p).arcs[l])

\* a bare name the token namespace lacks, or a triple-quoted literal
Unresolvable(l) ==
    /\ l \notin RuleNames
    /\ \/ IsAlpha(l[1]) /\ l \notin TokenNames
       \/ IsLiteral(l) /\ IsTripleQuoted(l)

(* C10: a grammar is returned only if no arc has an unresolvable label, and *)
(* then every arc is in one of the two views of its state; otherwise       *)
(* generate_grammar ends with an exception raised on a terminal label.     *)
C10_AbortOnUnresolved ==
    /\ pc = "returned" =>
          \A p \in StoredStates : \A l \in DOMAIN Stored(p).arcs :
              /\ ~Unresolvable(l)
              /\ \/ l \in DOMAIN Stored(p).nonterminal_arcs
                 \/ KeyOf(l) \in DOMAIN Stored(p).ilabel_to_plan
    /\ pc = "error" =>
          /\ error.kind \in {"AttributeError", "AssertionError", "SyntaxError"}
          /\ error.label \notin RuleNames
          /\ Unresolvable(error.label) <=> error.kind \in {"AttributeError", "AssertionError"}

\* generate_grammar raised on a triple-quoted literal of the second rule,
\* after it had compiled the arcs of the first
C10_Witness ==
    /\ pc = "error"
    /\ error.label = LitATriple
    /\ cr = 2
    /\ ~ViewsEmpty

====
